---- MODULE Spec2Model ----
(***************************************************************************)
(* Dropship Finder API (src/main.py, src/schemas.py).                      *)
(*                                                                         *)
(* Two request handlers over one document collection:                      *)
(*   analyze_product   fetches a page, extracts signals with regular       *)
(*                     expressions, scores them and stores the record;     *)
(*   discover_products queries the stored records with a $regex filter.    *)
(*                                                                         *)
(* Text is modelled as TLA+ strings, read character by character with      *)
(* Len, SubSeq and \o.  Optional fields (Python None) are sequences of     *)
(* length at most one: <<>> is None, <<v>> is the value v.  Floats are     *)
(* fixed-point integers in hundredths (51.0 is 5100, 12.50 is 1250).       *)
(***************************************************************************)
EXTENDS Integers, Sequences, FiniteSets, TLC

None == <<>>
Some(v) == <<v>>

\* ------------------------------------------------------------ strings

\* the character s[i-1], "" outside the string
At(s, i) == IF 1 <= i /\ i <= Len(s) THEN SubSeq(s, i, i) ELSE ""

\* s[i-1 : i-1+len(w)] == w
StartsAt(s, i, w) ==
    /\ i >= 1
    /\ i + Len(w) - 1 <= Len(s)
    /\ SubSeq(s, i, i + Len(w) - 1) = w

\* Python's `w in s`
Contains(s, w) == \E i \in 1..(Len(s) - Len(w) + 1) : StartsAt(s, i, w)

SetMin(S) == CHOOSE x \in S : \A y \in S : x <= y
SetMax(S) == CHOOSE x \in S : \A y \in S : x >= y

\* The first index >= from at which w starts in s, 0 when there is none.
Find(s, w, from) ==
    LET hits == {i \in from..(Len(s) - Len(w) + 1) : StartsAt(s, i, w)}
    IN  IF hits = {} THEN 0 ELSE SetMin(hits)

\* ASCII upper case to lower case
LowerOf ==
    "A" :> "a" @@ "B" :> "b" @@ "C" :> "c" @@ "D" :> "d" @@ "E" :> "e" @@
    "F" :> "f" @@ "G" :> "g" @@ "H" :> "h" @@ "I" :> "i" @@ "J" :> "j" @@
    "K" :> "k" @@ "L" :> "l" @@ "M" :> "m" @@ "N" :> "n" @@ "O" :> "o" @@
    "P" :> "p" @@ "Q" :> "q" @@ "R" :> "r" @@ "S" :> "s" @@ "T" :> "t" @@
    "U" :> "u" @@ "V" :> "v" @@ "W" :> "w" @@ "X" :> "x" @@ "Y" :> "y" @@
    "Z" :> "z"

LowerChar(c) == IF c \in DOMAIN LowerOf THEN LowerOf[c] ELSE c

\* str.lower() of s[lo..hi], by halves
RECURSIVE LowerRange(_, _, _)
LowerRange(s, lo, hi) ==
    IF lo > hi THEN ""
    ELSE IF lo = hi THEN LowerChar(At(s, lo))
    ELSE LET mid == (lo + hi) \div 2
         IN  LowerRange(s, lo, mid) \o LowerRange(s, mid + 1, hi)

Lower(s) == LowerRange(s, 1, Len(s))

\* the regular expression class \s, and what str.strip() strips (ASCII)
IsSpace(c) == c \in {" ", "\n", "\t", "\r", "\f"}

IsDigit(c) == Len(c) = 1 /\ Contains("0123456789", c)

IsQuote(c) == c \in {"\"", "'"}

DigitVal(c) == Find("0123456789", c, 1) - 1

\* the value of a run of decimal digits
RECURSIVE DigitsVal(_)
DigitsVal(s) ==
    IF s = "" THEN 0
    ELSE 10 * DigitsVal(SubSeq(s, 1, Len(s) - 1)) + DigitVal(At(s, Len(s)))

\* ------------------------------------------------ regular expressions

\* <title>(.*?)</title> with IGNORECASE | DOTALL: the text between the first
\* <title> and the first </title> after it.
TITLE_RE(html) ==
    LET low   == Lower(html)
        open  == Find(low, "<title>", 1)
        close == IF open = 0 THEN 0 ELSE Find(low, "</title>", open + 7)
    IN  IF close = 0 THEN None ELSE Some(SubSeq(html, open + 7, close - 1))

\* The end of the lazy group (.*?)["'] that starts at g: the first quote at or
\* after g with no newline before it (no DOTALL), 0 when there is none.
GroupEnd(html, g) ==
    LET ends == {e \in g..Len(html) :
                    /\ IsQuote(At(html, e))
                    /\ \A j \in g..(e - 1) :
                          At(html, j) # "\n" /\ ~IsQuote(At(html, j))}
    IN  IF ends = {} THEN 0 ELSE SetMin(ends)

\* One attempt of <meta[^>]*property=["']NAME["'][^>]*content=["'](.*?)["'] at
\* index i: [start of group 1, index of the closing quote], or <<>>.  Each
\* [^>]* is greedy, so the last property= and the last content= that lead to
\* a match are the ones taken.
MetaAt(html, low, name, i) ==
    LET gt    == Find(html, ">", i)
        stop  == IF gt = 0 THEN Len(html) + 1 ELSE gt
        n     == Len(name)
        Prop(k) == /\ StartsAt(low, k, "property=")
                   /\ IsQuote(At(html, k + 9))
                   /\ StartsAt(low, k + 10, name)
                   /\ IsQuote(At(html, k + 10 + n))
        Cont(m) == /\ StartsAt(low, m, "content=")
                   /\ IsQuote(At(html, m + 8))
                   /\ GroupEnd(html, m + 9) > 0
        Conts(k) == {m \in (k + 11 + n)..(stop - 1) : Cont(m)}
        props == {k \in (i + 5)..(stop - 1) : Prop(k) /\ Conts(k) # {}}
    IN  IF ~StartsAt(low, i, "<meta") \/ props = {} THEN <<>>
        ELSE LET m == SetMax(Conts(SetMax(props)))
             IN  <<m + 9, GroupEnd(html, m + 9)>>

\* re.search of the meta pattern from index `from`: the leftmost match.
MetaSearch(html, low, name, from) ==
    LET starts == {i \in from..Len(html) : MetaAt(html, low, name, i) # <<>>}
    IN  IF starts = {} THEN <<>> ELSE MetaAt(html, low, name, SetMin(starts))

\* META_TITLE_RE.search(html): group 1 of the first match, or None
META_TITLE_RE(html) ==
    LET m == MetaSearch(html, Lower(html), "og:title", 1)
    IN  IF m = <<>> THEN None ELSE Some(SubSeq(html, m[1], m[2] - 1))

\* META_IMG_RE.findall(html): group 1 of every match, left to right, each
\* search resuming after the previous match's closing quote.
RECURSIVE MetaFindAll(_, _, _, _)
MetaFindAll(html, low, name, from) ==
    LET m == MetaSearch(html, low, name, from)
    IN  IF m = <<>> THEN <<>>
        ELSE <<SubSeq(html, m[1], m[2] - 1)>>
                 \o MetaFindAll(html, low, name, m[2] + 1)

META_IMG_RE(html) == MetaFindAll(html, Lower(html), "og:image", 1)

\* The index after the run of characters satisfying \s that starts at i.
SkipSpace(s, i) ==
    SetMin({j \in i..(Len(s) + 1) : j > Len(s) \/ ~IsSpace(At(s, j))})

\* The index after the run of digits that starts at i.
SkipDigits(s, i) ==
    SetMin({j \in i..(Len(s) + 1) : j > Len(s) \/ ~IsDigit(At(s, j))})

\* Mutant of PriceAt: the fraction is left out of group 1.
PriceAtWholeOnly(html, low, i) ==
    LET key == IF StartsAt(low, i, "price") THEN 5
               ELSE IF StartsAt(low, i, "amount") THEN 6 ELSE 0
        q1  == IF At(html, i + key) = "\"" THEN i + key + 1 ELSE i + key
        q2  == IF At(html, q1 + 1) = "\"" THEN q1 + 2 ELSE q1 + 1
        g   == SkipSpace(html, q2)
        d   == SkipDigits(html, g)
    IN  IF key = 0 \/ At(html, q1) \notin {":", "="} \/ d = g THEN <<>>
        ELSE <<g, d>>

\* One attempt of (?:price|amount)\"?[:=]\"?\s*([0-9]+(?:\.[0-9]{2})?) at
\* index i: [start of group 1, index after it], or <<>>.
PriceAt(html, low, i) ==
    LET key == IF StartsAt(low, i, "price") THEN 5
               ELSE IF StartsAt(low, i, "amount") THEN 6 ELSE 0
        q1  == IF At(html, i + key) = "\"" THEN i + key + 1 ELSE i + key
        q2  == IF At(html, q1 + 1) = "\"" THEN q1 + 2 ELSE q1 + 1
        g   == SkipSpace(html, q2)
        d   == SkipDigits(html, g)
        e   == IF /\ At(html, d) = "."
                  /\ IsDigit(At(html, d + 1))
                  /\ IsDigit(At(html, d + 2))
               THEN d + 3 ELSE d
    IN  IF key = 0 \/ At(html, q1) \notin {":", "="} \/ d = g THEN <<>>
        ELSE <<g, e>>

\* PRICE_RE.search(html): group 1 of the leftmost match, or None
PRICE_RE(html) ==
    LET low    == Lower(html)
        starts == {i \in 1..Len(html) : PriceAt(html, low, i) # <<>>}
    IN  IF starts = {} THEN None
        ELSE LET m == PriceAt(html, low, SetMin(starts))
             IN  Some(SubSeq(html, m[1], m[2] - 1))

\* float(text) of a PRICE_RE group, digits with an optional .dd, in hundredths
Float(text) ==
    LET dot == Find(text, ".", 1)
    IN  IF dot = 0 THEN 100 * DigitsVal(text)
        ELSE 100 * DigitsVal(SubSeq(text, 1, dot - 1))
                 + DigitsVal(SubSeq(text, dot + 1, Len(text)))

\* re.sub(r"\s+", " ", s) of s[lo..hi], by halves: each run of \s is
\* replaced by one space, written where the run starts.
RECURSIVE CollapseRange(_, _, _)
CollapseRange(s, lo, hi) ==
    IF lo > hi THEN ""
    ELSE IF lo = hi
         THEN IF ~IsSpace(At(s, lo)) THEN At(s, lo)
              ELSE IF lo > 1 /\ IsSpace(At(s, lo - 1)) THEN "" ELSE " "
    ELSE LET mid == (lo + hi) \div 2
         IN  CollapseRange(s, lo, mid) \o CollapseRange(s, mid + 1, hi)

Collapse(s) == CollapseRange(s, 1, Len(s))

\* str.strip()
Strip(s) ==
    LET keep == {i \in 1..Len(s) : ~IsSpace(At(s, i))}
    IN  IF keep = {} THEN "" ELSE SubSeq(s, SetMin(keep), SetMax(keep))

\* s[:n]
Truncate(s, n) == IF Len(s) <= n THEN s ELSE SubSeq(s, 1, n)

\* list[:n]
Take(l, n) == IF Len(l) <= n THEN l ELSE SubSeq(l, 1, n)

\* Mutant of Dedup: repeated entries are kept.
DedupKeepsAll(l) == l

\* list(dict.fromkeys(l)): the first occurrence of each entry, in order
RECURSIVE Dedup(_)
Dedup(l) ==
    IF l = <<>> THEN <<>>
    ELSE LET init == Dedup(SubSeq(l, 1, Len(l) - 1))
             x    == l[Len(l)]
         IN  IF \E i \in 1..Len(init) : init[i] = x THEN init
             ELSE Append(init, x)

\* len(re.findall(w1|w2|..., s)): the matches are counted left to right, the
\* scan resuming after each match.
AltAt(s, words, i) == {k \in 1..Len(words) : StartsAt(s, i, words[k])}

RECURSIVE CountFrom(_, _, _)
CountFrom(s, words, from) ==
    LET hits == {i \in from..Len(s) : AltAt(s, words, i) # {}}
    IN  IF hits = {} THEN 0
        ELSE LET i == SetMin(hits)
                 w == words[SetMin(AltAt(s, words, i))]
             IN  1 + CountFrom(s, words, i + Len(w))

CountMatches(s, words) == CountFrom(s, words, 1)

\* urlparse(url).netloc: what follows "scheme://" up to the first of / ? #
Netloc(url) ==
    LET colon == Find(url, ":", 1)
        start == colon + 3
        ends  == {j \in start..Len(url) : At(url, j) \in {"/", "?", "#"}}
        stop  == IF ends = {} THEN Len(url) + 1 ELSE SetMin(ends)
    IN  IF colon = 0 \/ ~StartsAt(url, colon + 1, "//") THEN ""
        ELSE SubSeq(url, start, stop - 1)

\* -------------------------------------------------------- the extractor

COMMON_SHOP_PLATFORMS ==
    <<"shopify", "woocommerce", "magento", "bigcommerce", "aliexpress", "amazon">>

NICHE_KEYWORDS ==
    <<"pet", "cat", "dog", "fitness", "gym", "beauty", "home", "kitchen",
      "outdoor", "camp", "tech", "gadget", "baby", "kids">>

DEMAND_PHRASES == <<"add to cart", "buy now", "bestseller", "sold">>

SUPPLIER_NAMES == <<"aliexpress", "amazon", "etsy", "ebay">>

TitleCap == 180
ImagesCap == 5
TagsCap == 6

\* Mutant of Title: the title is not cut to 180 characters.
TitleUntruncated(html) ==
    LET meta == META_TITLE_RE(html)
        m    == IF meta # None THEN meta ELSE TITLE_RE(html)
    IN  IF m = None THEN None ELSE Some(Strip(Collapse(m[1])))

\* m = META_TITLE_RE.search(html) or TITLE_RE.search(html);
\* title = re.sub(r"\s+", " ", m.group(1)).strip()[:180]
Title(html) ==
    LET meta == META_TITLE_RE(html)
        m    == IF meta # None THEN meta ELSE TITLE_RE(html)
    IN  IF m = None THEN None
        ELSE Some(Truncate(Strip(Collapse(m[1])), TitleCap))

\* mimg = META_IMG_RE.findall(html); images = list(dict.fromkeys(mimg))[:5]
Images(html) ==
    LET mimg == META_IMG_RE(html)
    IN  IF mimg = <<>> THEN None ELSE Some(Take(Dedup(mimg), ImagesCap))

\* mprice = PRICE_RE.search(html); price = float(mprice.group(1))
Price(html) ==
    LET mprice == PRICE_RE(html)
    IN  IF mprice = None THEN None ELSE Some(Float(mprice[1]))

Currency(html) ==
    IF Contains(html, "$") THEN Some("USD")
    ELSE IF Contains(html, "€") THEN Some("EUR")
    ELSE IF Contains(html, "£") THEN Some("GBP")
    ELSE None

\* Mutant of Source: the last platform name that occurs wins.
SourceLastMatch(url, html) ==
    LET domain == Netloc(url)
        found  == {k \in 1..Len(COMMON_SHOP_PLATFORMS) :
                      \/ Contains(Lower(html), COMMON_SHOP_PLATFORMS[k])
                      \/ Contains(Lower(domain), COMMON_SHOP_PLATFORMS[k])}
    IN  IF found = {} THEN domain ELSE COMMON_SHOP_PLATFORMS[SetMax(found)]

\* source = domain; for p in COMMON_SHOP_PLATFORMS:
\*     if p in html.lower() or p in domain.lower(): source = p; break
Source(url, html) ==
    LET domain == Netloc(url)
        found  == {k \in 1..Len(COMMON_SHOP_PLATFORMS) :
                      \/ Contains(Lower(html), COMMON_SHOP_PLATFORMS[k])
                      \/ Contains(Lower(domain), COMMON_SHOP_PLATFORMS[k])}
    IN  IF found = {} THEN domain ELSE COMMON_SHOP_PLATFORMS[SetMin(found)]

\* for t in [...]: if t in kw: tags.append(t)
RECURSIVE TagsUpTo(_, _)
TagsUpTo(kw, n) ==
    IF n = 0 THEN <<>>
    ELSE LET t == NICHE_KEYWORDS[n]
         IN  IF Contains(kw, t) THEN Append(TagsUpTo(kw, n - 1), t)
             ELSE TagsUpTo(kw, n - 1)

\* tags = list(dict.fromkeys(tags))[:6]
Tags(html) == Take(Dedup(TagsUpTo(Lower(html), Len(NICHE_KEYWORDS))), TagsCap)

\* niche_tags = tags or None
NicheTags(html) == IF Tags(html) = <<>> THEN None ELSE Some(Tags(html))

EstimatedDemand(html) == CountMatches(Lower(html), DEMAND_PHRASES) * 10

SupplierCount(html) == CountMatches(Lower(html), SUPPLIER_NAMES)

Max(a, b) == IF a >= b THEN a ELSE b
Min(a, b) == IF a <= b THEN a ELSE b

ScoreFloor == 1000
ScoreCeil == 9500

\* Mutant of Score: the raw score is not clamped.
ScoreUnclamped(estimated_demand, supplier_count) ==
    5000 + (estimated_demand * 20) - (supplier_count * 500)

\* max(10.0, min(95.0, 50 + (estimated_demand * 0.2) - (supplier_count * 5))),
\* in hundredths
Score(estimated_demand, supplier_count) ==
    Max(ScoreFloor,
        Min(ScoreCeil, 5000 + (estimated_demand * 20) - (supplier_count * 500)))

\* round(x, 1) of a value in hundredths: to the nearest tenth, ties to even
Round1(x) ==
    LET q == x \div 10
        r == x % 10
    IN  IF r < 5 THEN 10 * q
        ELSE IF r > 5 THEN 10 * (q + 1)
        ELSE IF q % 2 = 0 THEN 10 * q ELSE 10 * (q + 1)

\* The DSProduct that analyze_product builds from the page it fetched.
Extract(url, html) ==
    LET estimated_demand == EstimatedDemand(html)
        supplier_count   == SupplierCount(html)
    IN  [url              |-> url,
         title            |-> Title(html),
         price            |-> Price(html),
         currency         |-> Currency(html),
         images           |-> Images(html),
         source           |-> Some(Source(url, html)),
         niche_tags       |-> NicheTags(html),
         score            |-> Some(Round1(Score(estimated_demand, supplier_count))),
         estimated_demand |-> Some(estimated_demand),
         supplier_count   |-> Some(supplier_count)]

\* Mutant of BadStatus: only 5xx answers are refused.
BadStatusServerOnly(status_code) == status_code >= 500

\* if resp.status_code >= 400: raise HTTPException(400, "Bad response: ...")
BadStatus(status_code) == status_code >= 400

\* ----------------------------------------------------------- the inputs

\* s repeated n times
RECURSIVE Repeat(_, _)
Repeat(s, n) ==
    IF n = 0 THEN ""
    ELSE IF n % 2 = 0 THEN LET h == Repeat(s, n \div 2) IN h \o h
    ELSE s \o Repeat(s, n - 1)

\* What requests.get can answer: [url, status_code, text].
PageExample ==
    [url |-> "https://shop.example.com/item", status_code |-> 200,
     text |-> "<meta property=\"og:title\" content=\"Cool Gadget\">"
              \o "<title>Fallback</title> Powered by Shopify. Also on amazon."
              \o " buy now, Buy Now! 12 sold {\"price\":\"12.50\"} $"]

PagePort ==
    [url |-> "http://Localhost:8000/a?b=1", status_code |-> 200,
     text |-> "<title>  Multi   Space \n\t Title </title>"
              \o " price10 Amount = \"4\" €"]

PageGallery ==
    [url |-> "https://x.myshopify.com/p/1", status_code |-> 200,
     text |-> "<meta property=\"og:image\" content=\"a.png\">"
              \o "<meta property='og:image' content='b.png'>"
              \o "<meta property=\"og:image\" content=\"a.png\">"
              \o "<META PROPERTY=\"OG:IMAGE\" CONTENT=\"c.png\">"
              \o "<meta property=\"og:image\" content=\"d.png\">"
              \o "<meta property=\"og:image\" content=\"b.png\">"
              \o "<meta property=\"og:image\" content=\"e.png\">"
              \o "<meta property=\"og:image\" content=\"f.png\">"
              \o " Kids kitchen home beauty gym fitness dog cat pet"]

PageLongTitle ==
    [url |-> "https://deals.example.org/", status_code |-> 200,
     text |-> "<title>" \o Repeat("x", 300) \o "</title>"
              \o " Amazon, AliExpress, Etsy " \o Repeat("ebay ", 7)]

PageHot ==
    [url |-> "https://user@my-amazon.example.com:8443/hot", status_code |-> 200,
     text |-> "<meta content=\"Wrong order\" property=\"og:title\">"
              \o "<TITLE>Hot\n Deal</TITLE> "
              \o Repeat("sold ", 22) \o "add to cart price: 7.5"]

PageNotModified ==
    [url |-> "https://plain.example.net/x", status_code |-> 304, text |-> ""]

PageEarlyHints ==
    [url |-> "https://plain.example.net/x", status_code |-> 103, text |-> ""]

PageNotFound ==
    [url |-> "https://shop.example.com/gone", status_code |-> 404,
     text |-> "<title>Not Found</title> pet"]

PageServerError ==
    [url |-> "https://shop.example.com/item", status_code |-> 500,
     text |-> "<title>Oops</title>"]

Web == {PageExample, PagePort, PageGallery, PageLongTitle, PageHot,
        PageNotModified, PageEarlyHints, PageNotFound, PageServerError}

\* The pages of the runs that record every record analyze_product returned.
AuditWeb == {PageExample, PageGallery, PageNotFound}

\* discover's q (at most 40 characters) and limit (1..24)
Queries == {"pet", "SHOP", "", "."}
Limits == {1, 24}

\* The documents the collection holds at most.
MaxStore == 2

\* Extract is a function of (url, html) alone: its value for each page.
Extracted == [p \in Web |-> Extract(p.url, p.text)]

\* ------------------------------------------------------------ the state

VARIABLES
    store,      \* the "dsproduct" collection, in storage order
    resp,       \* the last request and what the handler answered
    audit,      \* whether this run records `returned`
    returned    \* the records successful analyze calls returned (when audit)

vars == <<store, resp, audit, returned>>

NoResp ==
    [op |-> "none", page |-> None, fetch |-> "none", extracted |-> FALSE,
     storeFailed |-> FALSE, persisted |-> FALSE, outcome |-> "none",
     data |-> None, q |-> "", limit |-> 0, queryFailed |-> FALSE,
     out |-> <<>>]

Init ==
    /\ store = <<>>
    /\ resp = NoResp
    /\ audit = FALSE
    /\ returned = {}

InitAudit ==
    /\ store = <<>>
    /\ resp = NoResp
    /\ audit = TRUE
    /\ returned = {}

\* ------------------------------------------------------------- database

\* create_document(collection, data): the record is stored as it is.
create_document(docs, data) == Append(docs, data)

\* $regex with $options "i", for patterns of literal characters and ".":
\* the pattern matches somewhere in the text, "." standing for any
\* character but a newline.
RegexSearch(pattern, text) ==
    \E i \in 1..(Len(text) - Len(pattern) + 1) :
        \A j \in 1..Len(pattern) :
            IF At(pattern, j) = "."
            THEN At(text, i + j - 1) # "\n"
            ELSE LowerChar(At(pattern, j)) = LowerChar(At(text, i + j - 1))

\* A field matches when it is a string the pattern matches, or an array with
\* an entry the pattern matches; a null field matches nothing.
FieldMatches(pattern, field, isList) ==
    /\ field # None
    /\ IF isList
       THEN \E i \in 1..Len(field[1]) : RegexSearch(pattern, field[1][i])
       ELSE RegexSearch(pattern, field[1])

\* flt: {} (None here) or {"$or": [niche_tags, source, title ~ q]} (Some(q))
DocMatches(flt, d) ==
    \/ flt = None
    \/ FieldMatches(flt[1], d.niche_tags, TRUE)
    \/ FieldMatches(flt[1], d.source, FALSE)
    \/ FieldMatches(flt[1], d.title, FALSE)

RECURSIVE Matching(_, _)
Matching(docs, flt) ==
    IF docs = <<>> THEN <<>>
    ELSE LET init == Matching(SubSeq(docs, 1, Len(docs) - 1), flt)
             d    == docs[Len(docs)]
         IN  IF DocMatches(flt, d) THEN Append(init, d) ELSE init

\* get_documents(collection, flt, limit): the first `limit` matching
\* documents, in storage order.
get_documents(docs, flt, limit) == Take(Matching(docs, flt), limit)

\* ------------------------------------------------------------- handlers

\* flt = {}; if q: flt = {"$or": [...{"$regex": q, "$options": "i"}...]}
Filter(q) == IF q # "" THEN Some(q) ELSE None

\* Mutant of DocToProduct: the title is not copied.
DocToProductNoTitle(d) ==
    [url              |-> d.url,
     title            |-> None,
     price            |-> d.price,
     currency         |-> d.currency,
     images           |-> d.images,
     source           |-> d.source,
     niche_tags       |-> d.niche_tags,
     score            |-> d.score,
     estimated_demand |-> d.estimated_demand,
     supplier_count   |-> d.supplier_count]

\* DSProduct(url=d.get("url"), title=d.get("title"), ...)
DocToProduct(d) ==
    [url              |-> d.url,
     title            |-> d.title,
     price            |-> d.price,
     currency         |-> d.currency,
     images           |-> d.images,
     source           |-> d.source,
     niche_tags       |-> d.niche_tags,
     score            |-> d.score,
     estimated_demand |-> d.estimated_demand,
     supplier_count   |-> d.supplier_count]

\* Mutant of AnalyzeResult: the failure of create_document is raised.
AnalyzeResultRaising(data, storeFailed) ==
    IF storeFailed THEN [outcome |-> "error", data |-> None]
    ELSE [outcome |-> "ok", data |-> Some(data)]

\* try: create_document("dsproduct", data) / except Exception: pass;
\* return data
AnalyzeResult(data, storeFailed) == [outcome |-> "ok", data |-> Some(data)]

\* Mutant of DiscoverResult: the failure of get_documents is raised.
DiscoverResultRaising(docs, queryFailed) ==
    LET found == IF queryFailed THEN <<>> ELSE docs
    IN  [outcome |-> IF queryFailed THEN "error" ELSE "ok",
         out     |-> [i \in 1..Len(found) |-> DocToProduct(found[i])]]

\* try: docs = get_documents(...) / except Exception: docs = [];
\* out = [DSProduct(...) for d in docs]; return out
DiscoverResult(docs, queryFailed) ==
    LET found == IF queryFailed THEN <<>> ELSE docs
    IN  [outcome |-> "ok",
         out     |-> [i \in 1..Len(found) |-> DocToProduct(found[i])]]

\* POST /analyze.  page is what requests.get answers for the URL unless it
\* raises (fetchError); data is the DSProduct built from page.text, which is
\* read only when the fetch is accepted; storeFails is create_document
\* raising.
analyze_product(page, data, fetchError, storeFails) ==
    LET rejected == fetchError \/ BadStatus(page.status_code)
        result   == AnalyzeResult(data, storeFails)
    IN  /\ rejected \/ storeFails \/ Len(store) < MaxStore
        /\ store' = IF ~rejected /\ ~storeFails
                    THEN create_document(store, data) ELSE store
        /\ resp' = IF rejected
                   THEN [NoResp EXCEPT !.op = "analyze", !.page = Some(page),
                            !.fetch = IF fetchError THEN "error" ELSE "response",
                            !.persisted = (store' # store),
                            !.outcome = "rejected"]
                   ELSE [NoResp EXCEPT !.op = "analyze", !.page = Some(page),
                            !.fetch = "response", !.extracted = TRUE,
                            !.storeFailed = storeFails,
                            !.persisted = (store' # store),
                            !.outcome = result.outcome,
                            !.data = result.data]
        /\ returned' = IF audit /\ ~rejected /\ result.data # None
                       THEN returned \cup {result.data[1]} ELSE returned
        /\ UNCHANGED audit

\* GET /discover.  queryFails is get_documents raising.
discover_products(q, limit, queryFails) ==
    LET flt    == Filter(q)
        result == DiscoverResult(get_documents(store, flt, limit), queryFails)
    IN  /\ resp' = [NoResp EXCEPT !.op = "discover", !.q = q, !.limit = limit,
                       !.queryFailed = queryFails,
                       !.outcome = result.outcome, !.out = result.out]
        /\ UNCHANGED <<store, audit, returned>>

Analyze ==
    \E page \in (IF audit THEN AuditWeb ELSE Web) :
        \E fetchError \in BOOLEAN, storeFails \in BOOLEAN :
            analyze_product(page, Extracted[page], fetchError, storeFails)

Discover ==
    \E q \in Queries, limit \in Limits, queryFails \in BOOLEAN :
        discover_products(q, limit, queryFails)

Next == Analyze \/ Discover

Spec == Init /\ [][Next]_vars

SpecAudit == InitAudit /\ [][Next]_vars

\* ------------------------------------------------------------ the claims

\* The last request was an analyze call that returned a record.
Analyzed == resp.op = "analyze" /\ resp.data # None

AnalyzedPage(p) == Analyzed /\ resp.page = Some(p)

\* C1: the score of a produced record is 50 + 0.2 * estimated_demand
\* - 5 * supplier_count clamped to [10.0, 95.0], with one decimal; demand
\* 30 and supplier count 1 give 51.0.
C1_ScoreClamped ==
    Analyzed =>
        LET d   == resp.data[1]
            ed  == d.estimated_demand[1]
            sc  == d.supplier_count[1]
            raw == 5000 + (20 * ed) - (500 * sc)
        IN  /\ d.score # None
            /\ d.score[1] = (IF raw < 1000 THEN 1000
                             ELSE IF raw > 9500 THEN 9500 ELSE raw)
            /\ d.score[1] >= 1000 /\ d.score[1] <= 9500
            /\ d.score[1] % 10 = 0
            /\ (ed = 30 /\ sc = 1 => d.score[1] = 5100)

C1_Witness ==
    /\ Analyzed
    /\ resp.data[1].estimated_demand = Some(30)
    /\ resp.data[1].supplier_count = Some(1)
    /\ resp.data[1].score = Some(5100)

\* What a rejected analyze request leaves behind.
RejectedCleanly ==
    /\ resp.outcome = "rejected"
    /\ ~resp.extracted
    /\ ~resp.persisted
    /\ resp.data = None

\* C2 as claimed: an analyze request whose fetch raises, or answers a status
\* that is not 2xx/3xx, is rejected: nothing extracted, stored or returned.
C2_RejectsNon2xx3xx ==
    (/\ resp.op = "analyze"
     /\ \/ resp.fetch = "error"
        \/ resp.page[1].status_code \notin 200..399)
        => RejectedCleanly

\* C2 as amended: an analyze request whose fetch raises, or answers a status
\* of 400 or more, is rejected: nothing extracted, stored or returned; every
\* other answer, a 1xx one included, is analysed.
C2_RejectsErrorStatus ==
    resp.op = "analyze" =>
        IF resp.fetch = "error" \/ resp.page[1].status_code >= 400
        THEN RejectedCleanly
        ELSE resp.outcome = "ok" /\ resp.extracted /\ resp.data # None

C2_Witness ==
    /\ resp.op = "analyze"
    /\ resp.fetch = "response"
    /\ resp.page[1].status_code = 404
    /\ RejectedCleanly
    /\ store # <<>>

\* C3: when the fetch is accepted and storing the record fails, analyze
\* still answers with the record it built from the page, and the failure
\* is not surfaced.
C3_StoreFailureIgnored ==
    (resp.op = "analyze" /\ resp.extracted /\ resp.storeFailed) =>
        /\ resp.outcome = "ok"
        /\ resp.data = Some(Extracted[resp.page[1]])
        /\ ~resp.persisted

C3_Witness ==
    /\ resp.op = "analyze"
    /\ resp.storeFailed
    /\ resp.outcome = "ok"
    /\ resp.data = Some(Extracted[PageExample])
    /\ store = <<>>

\* q occurs in text, letter case ignored
ContainsIgnoreCase(text, q) == Contains(Lower(text), Lower(q))

\* q is a case-insensitive substring of a niche tag, the source or the title
SubstringOfRecord(q, r) ==
    \/ /\ r.niche_tags # None
       /\ \E i \in 1..Len(r.niche_tags[1]) :
              ContainsIgnoreCase(r.niche_tags[1][i], q)
    \/ r.source # None /\ ContainsIgnoreCase(r.source[1], q)
    \/ r.title # None /\ ContainsIgnoreCase(r.title[1], q)

\* C4 as claimed: discover returns at most limit records, each with q as a
\* case-insensitive substring of one of its niche tags, its source or its
\* title.
C4_DiscoverSubstring ==
    resp.op = "discover" =>
        /\ Len(resp.out) <= resp.limit
        /\ \A i \in 1..Len(resp.out) : SubstringOfRecord(resp.q, resp.out[i])

\* C5: a step of analyze leaves the store as it is or appends the record it
\* returned; a step of discover leaves the store as it is and returns only
\* records that earlier analyze calls returned.
C5_Lifecycle ==
    [][/\ resp'.op = "analyze" =>
              \/ store' = store
              \/ /\ resp'.data # None
                 /\ resp'.data[1] \in returned'
                 /\ store' = Append(store, resp'.data[1])
       /\ resp'.op = "discover" =>
              /\ store' = store
              /\ \A i \in 1..Len(resp'.out) : resp'.out[i] \in returned]_vars

C5_Witness ==
    /\ audit
    /\ resp.op = "discover"
    /\ Len(resp.out) = 2
    /\ resp.out[1] \in returned
    /\ resp.out[1].title = Some("Cool Gadget")

\* C6: when the storage query fails, discover answers with an empty list and
\* no error.
C6_QueryFailureIsEmpty ==
    (resp.op = "discover" /\ resp.queryFailed) =>
        resp.outcome = "ok" /\ resp.out = <<>>

C6_Witness ==
    /\ resp.op = "discover"
    /\ resp.queryFailed
    /\ resp.q = ""
    /\ Len(store) = 2
    /\ resp.outcome = "ok"
    /\ resp.out = <<>>

\* The platform name p occurs in the lower-cased body or the lower-cased
\* location.
PlatformOccurs(p, html, location) ==
    Contains(Lower(html), p) \/ Contains(Lower(location), p)

\* src is the first platform name of the list that occurs, or the location as
\* given when none does.
FirstPlatformOr(html, location, src) ==
    LET n == Len(COMMON_SHOP_PLATFORMS)
        Occurs(k) == PlatformOccurs(COMMON_SHOP_PLATFORMS[k], html, location)
    IN  \/ \E k \in 1..n :
               /\ Occurs(k)
               /\ \A j \in 1..(k - 1) : ~Occurs(j)
               /\ src = Some(COMMON_SHOP_PLATFORMS[k])
        \/ /\ \A k \in 1..n : ~Occurs(k)
           /\ src = Some(location)

\* The host of a URL: its network location without user-info and port.
HostOf(url) ==
    LET loc   == Netloc(url)
        ats   == {i \in 1..Len(loc) : At(loc, i) = "@"}
        rest  == IF ats = {} THEN loc
                 ELSE SubSeq(loc, SetMax(ats) + 1, Len(loc))
        colon == Find(rest, ":", 1)
    IN  IF colon = 0 THEN rest ELSE SubSeq(rest, 1, colon - 1)

Nth(S, i) == CHOOSE x \in S : Cardinality({y \in S : y < x}) = i - 1

\* l is the entries of `all` at the indices `keep`, in order, cut to cap.
KeptInOrder(all, keep, cap, l) ==
    /\ Len(l) = Min(cap, Cardinality(keep))
    /\ \A i \in 1..Len(l) : l[i] = all[Nth(keep, i)]

NoDuplicates(l) == \A i, j \in 1..Len(l) : l[i] = l[j] => i = j

\* field is absent when nothing is kept, and otherwise the non-empty,
\* duplicate-free list of the kept entries cut to cap.
AbsentOrKept(all, keep, cap, field) ==
    IF keep = {} THEN field = None
    ELSE /\ field # None
         /\ field[1] # <<>>
         /\ Len(field[1]) <= cap
         /\ NoDuplicates(field[1])
         /\ KeptInOrder(all, keep, cap, field[1])

\* C8: images is the og:image contents in first-occurrence order without
\* duplicates, cut to 5; niche_tags is the keywords found in the body, in
\* the order of the keyword list, without duplicates, cut to 6; each is
\* absent rather than empty when nothing is found.
C8_ImagesAndTags ==
    Analyzed =>
        LET html   == resp.page[1].text
            found  == META_IMG_RE(html)
            firsts == {j \in 1..Len(found) :
                          \A k \in 1..(j - 1) : found[k] # found[j]}
            low    == Lower(html)
            hits   == {k \in 1..Len(NICHE_KEYWORDS) :
                          Contains(low, NICHE_KEYWORDS[k])}
        IN  /\ AbsentOrKept(found, firsts, 5, resp.data[1].images)
            /\ AbsentOrKept(NICHE_KEYWORDS, hits, 6, resp.data[1].niche_tags)

C8_Witness ==
    /\ AnalyzedPage(PageGallery)
    /\ Len(META_IMG_RE(PageGallery.text)) = 8
    /\ resp.data[1].images = Some(<<"a.png", "b.png", "c.png", "d.png", "e.png">>)
    /\ resp.data[1].niche_tags
           = Some(<<"pet", "cat", "dog", "fitness", "gym", "beauty">>)

\* The words of s from index `from` on, joined by single spaces.
RECURSIVE WordsJoined(_, _)
WordsJoined(s, from) ==
    LET starts == {i \in from..Len(s) : ~IsSpace(At(s, i))}
    IN  IF starts = {} THEN ""
        ELSE LET a    == SetMin(starts)
                 b    == SetMin({i \in a..(Len(s) + 1) :
                                    i > Len(s) \/ IsSpace(At(s, i))})
                 rest == WordsJoined(s, b)
             IN  SubSeq(s, a, b - 1)
                     \o (IF rest = "" THEN "" ELSE " " \o rest)

\* C9: the title comes from the og:title meta tag when one matches, else
\* from the first <title> element, else it is absent; when present it is the
\* words of the matched text joined by single spaces, cut to 180 characters
\* (300 non-space characters give exactly 180).
C9_Title ==
    Analyzed =>
        LET html  == resp.page[1].text
            meta  == META_TITLE_RE(html)
            raw   == IF meta # None THEN meta ELSE TITLE_RE(html)
            title == resp.data[1].title
        IN  /\ raw = None => title = None
            /\ raw # None =>
                   LET words == WordsJoined(raw[1], 1)
                   IN  /\ title # None
                       /\ Len(title[1]) <= 180
                       /\ Len(title[1]) = Min(180, Len(words))
                       /\ title[1] = SubSeq(words, 1, Len(title[1]))
            /\ resp.page[1] = PageExample => title = Some("Cool Gadget")
            /\ resp.page[1] = PagePort => title = Some("Multi Space Title")
            /\ resp.page[1] = PageLongTitle => title = Some(Repeat("x", 180))

C9_Witness ==
    /\ AnalyzedPage(PageLongTitle)
    /\ TITLE_RE(PageLongTitle.text) = Some(Repeat("x", 300))
    /\ Len(resp.data[1].title[1]) = 180

\* The indices at which the number starts in an occurrence, at index i, of
\* the price pattern: the key price or amount, an optional quote, a : or =
\* (optional when sepOptional), an optional quote, optional white space.
PricePatternAt(html, i, sepOptional) ==
    LET k == IF Lower(SubSeq(html, i, Min(Len(html), i + 4))) = "price" THEN 5
             ELSE IF Lower(SubSeq(html, i, Min(Len(html), i + 5))) = "amount"
                  THEN 6 ELSE 0
        heads == {h \in (i + k)..(i + k + 3) :
                     \E q1 \in 0..1, sep \in 0..1, q2 \in 0..1 :
                         /\ h = i + k + q1 + sep + q2
                         /\ q1 = 1 => At(html, i + k) = "\""
                         /\ sep = 1 => At(html, i + k + q1) \in {":", "="}
                         /\ sep = 0 => sepOptional
                         /\ q2 = 1 => At(html, i + k + q1 + sep) = "\""}
    IN  IF k = 0 THEN {}
        ELSE {g \in (i + k)..Len(html) :
                 /\ IsDigit(At(html, g))
                 /\ \E h \in heads :
                        h <= g /\ \A j \in h..(g - 1) : IsSpace(At(html, j))}

\* The number that starts at g: its digits and, when they follow, a point
\* and two more digits; in hundredths.
NumberAt(html, g) ==
    LET d == SetMin({j \in g..(Len(html) + 1) : ~IsDigit(At(html, j))})
        whole == DigitsVal(SubSeq(html, g, d - 1))
    IN  IF At(html, d) = "." /\ IsDigit(At(html, d + 1)) /\ IsDigit(At(html, d + 2))
        THEN 100 * whole + DigitsVal(SubSeq(html, d + 1, d + 2))
        ELSE 100 * whole

\* price is the number of the first occurrence of the pattern, absent when
\* there is none.
FirstPriceIs(html, sepOptional, price) ==
    LET occ == {i \in 1..Len(html) : PricePatternAt(html, i, sepOptional) # {}}
    IN  IF occ = {} THEN price = None
        ELSE /\ price # None
             /\ price[1] >= 0
             /\ \E g \in PricePatternAt(html, SetMin(occ), sepOptional) :
                    price[1] = NumberAt(html, g)

\* C10 as claimed: price is the number of the first case-insensitive
\* occurrence of: the key price or amount, optionally a : or =, optionally
\* quoted, a number with an optional 2-decimal fraction; absent when there
\* is none.
C10_PriceSeparatorOptional ==
    Analyzed => FirstPriceIs(resp.page[1].text, TRUE, resp.data[1].price)

\* C10 as amended: the : or = after the key is required (a quote may stand
\* before and after it, and white space before the number).
C10_PriceSeparatorRequired ==
    Analyzed => FirstPriceIs(resp.page[1].text, FALSE, resp.data[1].price)

C10_Witness ==
    /\ AnalyzedPage(PageExample)
    /\ Contains(PageExample.text, "\"price\":\"12.50\"")
    /\ resp.data[1].price = Some(1250)

====
